---- MODULE Spec2Model ----
(***************************************************************************)
(* Key/value run logging (r2r/core/logging/kv_logger.py): the three        *)
(* storage providers (LocalKVLoggingProvider over SQLite,                  *)
(* PostgresKVLoggingProvider, RedisKVLoggingProvider) and the              *)
(* KVLoggingSingleton facade in front of them.                             *)
(*                                                                         *)
(* The provider-level specifications (SpecEvents, SpecRunInfo) feed the    *)
(* same sequence of calls to one provider of each kind, side by side, so   *)
(* that what the three return for the same history can be compared.  The   *)
(* facade-level specification (SpecFacade) runs the facade's operations    *)
(* against the one configured provider, with the store client's calls      *)
(* allowed to fail.                                                        *)
(***************************************************************************)
EXTENDS Integers, Sequences, FiniteSets, TLC

(***************************************************************************)
(* Bounds of the model.                                                    *)
(***************************************************************************)
\* rows the event log may hold
MaxLogs == 3
\* info-log calls in one behaviour
MaxInfo == 3
\* largest limit / limit_per_run a caller passes
MaxLimit == 2
\* clock ticks in one second: a call is one tick after the previous one (the
\* same second, unless the second just ended) or a whole second after it
TicksPerSecond == 10

(***************************************************************************)
(* Program constants.                                                      *)
(***************************************************************************)
\* RedisKVLoggingProvider.get_run_info: count_per_batch = 100
count_per_batch == 100
\* PostgresKVLoggingProvider.get_run_info: "... LIMIT $2"
PgLimitPlaceholder == 2

Backends == {"local", "postgres", "redis"}
Relational == {"local", "postgres"}

\* run ids, in the order in which their canonical text sorts
RunSeq == <<"r1", "r2">>
Runs == {RunSeq[i] : i \in 1..Len(RunSeq)}
RunIndex(r) == CHOOSE i \in 1..Len(RunSeq) : RunSeq[i] = r

\* the (key, value) pairs callers log as ordinary records
EventPayloads ==
    { [key |-> "error", value |-> "code 503"],
      [key |-> "search_query", value |-> "q"] }
\* the (key, value) pairs callers log as info records: the last one lacks
\* the "type" marker
InfoPayloads ==
    { [key |-> "pipeline_type", value |-> "search"],
      [key |-> "pipeline_type", value |-> "rag"],
      [key |-> "pipeline", value |-> "rag"] }
LogTypes == {"search", "rag"}

\* Python's None
None == "<None>"
\* Python's truth value of an Optional[str]
Truthy(x) == x # None /\ x # ""

\* Python's `sub in s` on strings
Contains(s, sub) ==
    \E i \in 1..(Len(s) - Len(sub) + 1) : SubSeq(s, i, i + Len(sub) - 1) = sub

VARIABLES
    clock,        \* the wall clock, in ticks
    nInfo,        \* info-log calls made so far
    sqlLogs,      \* [Relational -> Seq(row)]: table `logs`, in insertion order
    sqlInfo,      \* [Relational -> Seq(row)]: table `logs_pipeline_info`
    redisLists,   \* the lists "logs:<run_id>", by run id text, head first
    redisHash,    \* the hash "logs_pipeline_info": run id text -> entry
    redisSorted,  \* the sorted set "logs_pipeline_info_sorted": member -> score
    sqlThroughput,\* [Relational -> Seq(row)]: table `throughput_logs`
    lastInfoType, \* history: the value of the latest accepted info write of each run
    ret,          \* the last provider call and what each provider answered
    config,       \* KVLoggingSingleton._config: the provider chosen, or None
    isConfigured, \* KVLoggingSingleton._is_configured
    openConns,    \* connections to the store that are open right now
    fret,         \* the last facade call and how it ended
    providers,    \* one provider object of each kind: its connection and what it sent
    writers,      \* the Redis info-log writes in progress: what each has sent
    reader        \* the Redis get_run_info call in progress: its locals

storeVars == <<sqlLogs, sqlInfo, sqlThroughput, redisLists, redisHash, redisSorted>>
facadeVars == <<config, isConfigured, openConns, fret>>
taskVars == <<writers, reader>>
vars == <<clock, nInfo, sqlLogs, sqlInfo, sqlThroughput, redisLists, redisHash,
          redisSorted, lastInfoType, ret, config, isConfigured, openConns, fret,
          providers, writers, reader>>

(***************************************************************************)
(* Results.                                                                *)
(***************************************************************************)
Ok(v) == [exc |-> "none", val |-> v]
Raise(e) == [exc |-> e, val |-> <<>>]

\* how a facade call ended: it returned val or raised exc; call_exc is what
\* the delegated provider call raised ("none" when it returned or was never
\* reached), opened the connections the call opened, still_open those of
\* them left open when the caller got control back
NoFacadeCall ==
    [op |-> "none", outcome |-> "none", exc |-> "none", val |-> <<>>,
     called |-> FALSE, call_exc |-> "none", opened |-> 0, still_open |-> 0,
     arg |-> <<>>]

NoCall ==
    [op |-> "none", run_ids |-> <<>>, limit |-> 0, filter |-> None,
     log_id |-> None, key |-> "", value |-> "", is_info_log |-> FALSE,
     out |-> [b \in Backends |-> Ok(<<>>)]]

(***************************************************************************)
(* Timestamps.                                                             *)
(***************************************************************************)
\* SQLite's datetime('now'): 'YYYY-MM-DD HH:MM:SS', the clock cut to the second
SqliteNow(t) == t \div TicksPerSecond
\* PostgreSQL's NOW() (one implicit transaction per statement) and Python's
\* datetime.now().timestamp(): the clock at its full resolution
PostgresNow(t) == t
PythonNow(t) == t

(***************************************************************************)
(* Conversions at the store boundary.                                      *)
(***************************************************************************)
\* str(uuid): the canonical text of a run id
Str(u) == "text:" \o u
\* uuid.UUID(text)
UUID(s) == SubSeq(s, 6, Len(s))
\* json.dumps / json.loads of a log entry
JsonDumps(e) == <<"json", e>>
JsonLoads(s) == s[2]

\* the elements of a list, as a set
Elems(s) == {s[i] : i \in 1..Len(s)}

(***************************************************************************)
(* log(): one Event Record, or one info record.                            *)
(* Each operator answers [exc, ...the collections after the call].         *)
(***************************************************************************)
\* the `log_id TEXT UNIQUE` / `log_id UUID UNIQUE` column of the info table
UniqueLogId(info, log_id) == \A i \in 1..Len(info) : info[i].log_id # log_id

LocalLog(logs, info, t, log_id, key, value, is_info_log) ==
    IF is_info_log
    THEN IF ~Contains(key, "type")
         THEN [exc |-> "ValueError", logs |-> logs, info |-> info]
         ELSE IF ~UniqueLogId(info, Str(log_id))
         THEN [exc |-> "IntegrityError", logs |-> logs, info |-> info]
         ELSE [exc |-> "none", logs |-> logs,
               info |-> Append(info, [timestamp |-> SqliteNow(t),
                                      log_id |-> Str(log_id),
                                      log_type |-> value])]
    ELSE [exc |-> "none",
          logs |-> Append(logs, [timestamp |-> SqliteNow(t),
                                 log_id |-> Str(log_id),
                                 key |-> key, value |-> value]),
          info |-> info]

PostgresLog(logs, info, t, log_id, key, value, is_info_log) ==
    IF is_info_log
    THEN IF ~Contains(key, "type")
         THEN [exc |-> "ValueError", logs |-> logs, info |-> info]
         ELSE IF ~UniqueLogId(info, log_id)
         THEN [exc |-> "UniqueViolationError", logs |-> logs, info |-> info]
         ELSE [exc |-> "none", logs |-> logs,
               info |-> Append(info, [timestamp |-> PostgresNow(t),
                                      log_id |-> log_id,
                                      log_type |-> value])]
    ELSE [exc |-> "none",
          logs |-> Append(logs, [timestamp |-> PostgresNow(t),
                                 log_id |-> log_id,
                                 key |-> key, value |-> value]),
          info |-> info]

\* HSET key field value
HSet(h, field, v) == (field :> v) @@ h
\* ZADD key {member: score}
ZAdd(z, member, score) == (member :> score) @@ z
\* LPUSH taken for RPUSH: the value goes to the tail of the list
LPushAtTail(l, v) == l \o <<v>>
\* LPUSH key value
LPush(l, v) == <<v>> \o l

\* log() with the "type" check made after the hash was written
RedisLogWriteFirst(lists, hash, sorted, t, log_id, key, value, is_info_log) ==
    LET timestamp == PythonNow(t)
        written == HSet(hash, Str(log_id),
                        JsonDumps([timestamp |-> timestamp,
                                   log_id |-> Str(log_id),
                                   key |-> key, value |-> value,
                                   log_type |-> value]))
    IN  IF is_info_log
        THEN IF ~Contains(key, "type")
             THEN [exc |-> "ValueError", lists |-> lists, hash |-> written,
                   sorted |-> sorted]
             ELSE [exc |-> "none", lists |-> lists, hash |-> written,
                   sorted |-> ZAdd(sorted, Str(log_id), timestamp)]
        ELSE [exc |-> "none",
              lists |-> [lists EXCEPT ![Str(log_id)] =
                            LPush(@, JsonDumps([timestamp |-> timestamp,
                                                log_id |-> Str(log_id),
                                                key |-> key,
                                                value |-> value]))],
              hash |-> hash, sorted |-> sorted]

RedisLog(lists, hash, sorted, t, log_id, key, value, is_info_log) ==
    LET timestamp == PythonNow(t)
        log_entry == [timestamp |-> timestamp, log_id |-> Str(log_id),
                      key |-> key, value |-> value]
    IN  IF is_info_log
        THEN IF ~Contains(key, "type")
             THEN [exc |-> "ValueError", lists |-> lists, hash |-> hash,
                   sorted |-> sorted]
             ELSE [exc |-> "none", lists |-> lists,
                   hash |-> HSet(hash, Str(log_id),
                                 JsonDumps([timestamp |-> timestamp,
                                            log_id |-> Str(log_id),
                                            key |-> key, value |-> value,
                                            log_type |-> value])),
                   sorted |-> ZAdd(sorted, Str(log_id), timestamp)]
        ELSE [exc |-> "none",
              lists |-> [lists EXCEPT ![Str(log_id)] =
                            LPush(@, JsonDumps(log_entry))],
              hash |-> hash, sorted |-> sorted]

(***************************************************************************)
(* get_logs(): the newest limit_per_run records of each run.               *)
(***************************************************************************)
\* ORDER BY timestamp DESC over rows i, j of a table; SQL leaves the order
\* of rows with equal timestamps to the engine: tie is the order it picks
OrderedBefore(table, tie, i, j) ==
    \/ table[i].timestamp > table[j].timestamp
    \/ table[i].timestamp = table[j].timestamp /\ tie[i] < tie[j]

\* the rows `rows` (indices of table) in ORDER BY timestamp DESC order
OrderByTimestampDesc(table, tie, rows) ==
    [k \in 1..Cardinality(rows) |->
        CHOOSE i \in rows :
            Cardinality({j \in rows : OrderedBefore(table, tie, j, i)}) = k - 1]

\* ROW_NUMBER() OVER (PARTITION BY log_id ORDER BY timestamp DESC)
RowNumber(table, tie, rows, i) ==
    1 + Cardinality({j \in rows : /\ table[j].log_id = table[i].log_id
                                  /\ OrderedBefore(table, tie, j, i)})

\* the partition-and-rank query of the relational providers, ids being the
\* texts bound to the IN (...) list
TopNPerRun(table, ids, limit_per_run, tie) ==
    LET inner == {i \in 1..Len(table) : table[i].log_id \in ids}
        outer == {i \in inner : RowNumber(table, tie, inner, i) <= limit_per_run}
        order == OrderByTimestampDesc(table, tie, outer)
    IN  [k \in 1..Len(order) |->
            [timestamp |-> table[order[k]].timestamp,
             log_id |-> table[order[k]].log_id,
             key |-> table[order[k]].key,
             value |-> table[order[k]].value,
             rn |-> RowNumber(table, tie, inner, order[k])]]

LocalGetLogs(logs, run_ids, limit_per_run, tie) ==
    IF run_ids = <<>>
    THEN Raise("ValueError")
    ELSE LET rows == TopNPerRun(logs, {Str(r) : r \in Elems(run_ids)},
                                limit_per_run, tie)
         IN  Ok([k \in 1..Len(rows) |->
                    [rows[k] EXCEPT !.log_id = UUID(@)]])

PostgresGetLogs(logs, run_ids, limit_per_run, tie) ==
    IF run_ids = <<>>
    THEN Raise("ValueError")
    ELSE Ok(TopNPerRun(logs, Elems(run_ids), limit_per_run, tie))

\* LRANGE key start stop: both ends inclusive, a negative index counts from
\* the tail of the list
LRange(l, start, stop) ==
    LET from == IF start < 0 THEN (IF Len(l) + start < 0 THEN 0 ELSE Len(l) + start)
                ELSE start
        to == IF stop < 0 THEN Len(l) + stop
              ELSE IF stop >= Len(l) THEN Len(l) - 1 ELSE stop
    IN  IF from > to THEN <<>> ELSE SubSeq(l, from + 1, to + 1)

RECURSIVE RedisGetLogsFrom(_, _, _, _)
RedisGetLogsFrom(lists, run_ids, limit_per_run, n) ==
    IF n > Len(run_ids)
    THEN <<>>
    ELSE LET raw_logs == LRange(lists[Str(run_ids[n])], 0, limit_per_run - 1)
         IN  [k \in 1..Len(raw_logs) |->
                 [JsonLoads(raw_logs[k]) EXCEPT !.log_id = UUID(@)]]
             \o RedisGetLogsFrom(lists, run_ids, limit_per_run, n + 1)

RedisGetLogs(lists, run_ids, limit_per_run) ==
    Ok(RedisGetLogsFrom(lists, run_ids, limit_per_run, 1))

(***************************************************************************)
(* get_run_info(): the newest runs and their types.                        *)
(***************************************************************************)
RunInfo(run_id, log_type) == [run_id |-> run_id, log_type |-> log_type]

\* SELECT log_id, log_type FROM info [WHERE log_type = filter]
\* ORDER BY timestamp DESC LIMIT limit
SelectRunInfo(info, limit, has_filter, log_type_filter, tie) ==
    LET rows == {i \in 1..Len(info) :
                    has_filter => info[i].log_type = log_type_filter}
        order == OrderByTimestampDesc(info, tie, rows)
    IN  SubSeq(order, 1, IF limit < Len(order) THEN limit ELSE Len(order))

LocalGetRunInfo(info, limit, log_type_filter, tie) ==
    LET rows == SelectRunInfo(info, limit, Truthy(log_type_filter),
                              log_type_filter, tie)
    IN  Ok([k \in 1..Len(rows) |->
               RunInfo(UUID(info[rows[k]].log_id), info[rows[k]].log_type)])

\* The limit is always bound to the placeholder $2, the filter (when given) to
\* $1: without a filter the statement names $2 and gets one argument, which
\* the server refuses.
PostgresGetRunInfo(info, limit, log_type_filter, tie) ==
    LET params == (IF Truthy(log_type_filter) THEN <<log_type_filter>> ELSE <<>>)
                  \o <<limit>>
    IN  IF Len(params) # PgLimitPlaceholder
        THEN Raise("PostgresError")
        ELSE LET rows == SelectRunInfo(info, params[PgLimitPlaceholder], TRUE,
                                       params[1], tie)
             IN  Ok([k \in 1..Len(rows) |->
                        RunInfo(info[rows[k]].log_id, info[rows[k]].log_type)])

\* ZREVRANGE key start stop: the members from the highest score down, equal
\* scores in descending order of the member's text; both ends inclusive
ZRevRange(z, start, stop) ==
    LET Above(a, b) == \/ z[a] > z[b]
                       \/ /\ a # b
                          /\ z[a] = z[b]
                          /\ RunIndex(UUID(a)) > RunIndex(UUID(b))
        \* each member with the number of members that come before it
        ranked == {<<Cardinality({o \in DOMAIN z : Above(o, m)}), m>> :
                      m \in DOMAIN z}
        all == [k \in 1..Cardinality(DOMAIN z) |->
                   (CHOOSE p \in ranked : p[1] = k - 1)[2]]
        to == IF stop >= Len(all) THEN Len(all) - 1 ELSE stop
    IN  IF start > to THEN <<>> ELSE SubSeq(all, start + 1, to + 1)

\* HGET key field
HGet(h, field) == IF field \in DOMAIN h THEN h[field] ELSE None

\* the `for log_id in log_ids` loop, from the n-th id of the batch on; it
\* answers [exc, list]
RECURSIVE RedisScanBatch(_, _, _, _, _, _)
RedisScanBatch(hash, log_ids, n, limit, log_type_filter, run_info_list) ==
    IF n > Len(log_ids)
    THEN [exc |-> "none", list |-> run_info_list]
    ELSE IF log_ids[n] \notin DOMAIN hash
    THEN \* json.loads(None)
         [exc |-> "TypeError", list |-> run_info_list]
    ELSE LET log_entry == JsonLoads(HGet(hash, log_ids[n]))
             list == IF Truthy(log_type_filter)
                        => log_entry.log_type = log_type_filter
                     THEN Append(run_info_list,
                                 RunInfo(UUID(log_entry.log_id),
                                         log_entry.log_type))
                     ELSE run_info_list
         IN  IF Len(list) >= limit
             THEN [exc |-> "none", list |-> list]
             ELSE RedisScanBatch(hash, log_ids, n + 1, limit,
                                 log_type_filter, list)

\* the `while len(run_info_list) < limit` loop, from offset start on
RECURSIVE RedisRunInfoLoop(_, _, _, _, _, _)
RedisRunInfoLoop(hash, sorted, limit, log_type_filter, run_info_list, start) ==
    IF ~(Len(run_info_list) < limit)
    THEN [exc |-> "none", list |-> run_info_list]
    ELSE LET log_ids == ZRevRange(sorted, start, start + count_per_batch - 1)
         IN  IF log_ids = <<>>
             THEN [exc |-> "none", list |-> run_info_list]
             ELSE LET scan == RedisScanBatch(hash, log_ids, 1, limit,
                                             log_type_filter, run_info_list)
                  IN  IF scan.exc # "none"
                      THEN scan
                      ELSE RedisRunInfoLoop(hash, sorted, limit,
                                            log_type_filter, scan.list,
                                            start + count_per_batch)

RedisGetRunInfo(hash, sorted, limit, log_type_filter) ==
    LET r == RedisRunInfoLoop(hash, sorted, limit, log_type_filter, <<>>, 0)
    IN  IF r.exc # "none"
        THEN Raise(r.exc)
        ELSE Ok(SubSeq(r.list, 1, IF limit < Len(r.list) THEN limit
                                  ELSE Len(r.list)))

(***************************************************************************)
(* The provider objects: construction, init() and close().  A relational   *)
(* provider keeps its connection in `self.conn`; the Redis provider keeps  *)
(* a client in `self.redis` from construction on.  `tables` is the catalog *)
(* of the database behind the provider (for Redis, the key names the       *)
(* provider writes under), `closes` counts the close() commands that       *)
(* reached a connection or the client, `inits` the init() calls,           *)
(* `calls` the calls made on the object and `live` the connections it      *)
(* opened that are still open.                                             *)
(***************************************************************************)
\* LoggingConfig: log_table, log_info_table, log_throughput_table
TableNames == {"logs", "logs_pipeline_info", "throughput_logs"}

\* __init__ of each provider
NewProvider(b) ==
    [conn |-> IF b \in Relational THEN "None" ELSE "client",
     tables |-> IF b \in Relational THEN {} ELSE TableNames,
     closes |-> 0, inits |-> 0, calls |-> 0, live |-> 0,
     last |-> "__init__"]

\* CREATE TABLE (without IF NOT EXISTS): an error when the table is there
CreateTable(tables, name) ==
    IF name \in tables THEN Raise("OperationalError")
    ELSE Ok(tables \cup {name})

\* CREATE TABLE IF NOT EXISTS name (...)
CreateTableIfNotExists(tables, name) == Ok(tables \cup {name})

\* the three statements of init(), in order; the first error ends the call
RECURSIVE CreateTables(_, _)
CreateTables(tables, names) ==
    IF names = <<>> THEN Ok(tables)
    ELSE LET c == CreateTableIfNotExists(tables, Head(names))
         IN  IF c.exc # "none" THEN [exc |-> c.exc, val |-> tables]
             ELSE CreateTables(c.val, Tail(names))

\* LocalKVLoggingProvider.init, PostgresKVLoggingProvider.init
RelationalInit(p) ==
    LET c == CreateTables(p.tables,
                          <<"logs", "logs_pipeline_info", "throughput_logs">>)
    IN  [exc |-> c.exc,
         val |-> [p EXCEPT !.conn = "open", !.live = @ + 1, !.tables = c.val,
                           !.inits = @ + 1, !.calls = @ + 1, !.last = "init"]]

\* RedisKVLoggingProvider defines no init(); the one it inherits ensures the
\* three namespaces, which are key names and need no creation
RedisInit(p) == Ok([p EXCEPT !.inits = @ + 1, !.calls = @ + 1, !.last = "init"])

\* LocalKVLoggingProvider.close, PostgresKVLoggingProvider.close
RelationalClose(p) ==
    IF p.conn # "None"
    THEN Ok([p EXCEPT !.conn = "None", !.live = @ - 1, !.closes = @ + 1,
                      !.calls = @ + 1, !.last = "close"])
    ELSE Ok([p EXCEPT !.calls = @ + 1, !.last = "close"])

\* RedisKVLoggingProvider.close
RedisClose(p) == Ok([p EXCEPT !.closes = @ + 1, !.calls = @ + 1, !.last = "close"])

\* LocalKVLoggingProvider.__aenter__, PostgresKVLoggingProvider.__aenter__
RelationalEnter(p) ==
    IF p.conn = "None"
    THEN LET r == RelationalInit(p)
         IN  [exc |-> r.exc, val |-> [r.val EXCEPT !.last = "__aenter__"]]
    ELSE Ok([p EXCEPT !.calls = @ + 1, !.last = "__aenter__"])

\* RedisKVLoggingProvider.__aenter__
RedisEnter(p) == Ok([p EXCEPT !.calls = @ + 1, !.last = "__aenter__"])

(***************************************************************************)
(* Concurrent callers of the Redis provider.  Every Redis command is one   *)
(* step: between two commands of one call, the commands of other callers   *)
(* may reach the store.                                                    *)
(***************************************************************************)
\* the commands an info-log write sends, zadd before hset
InfoCommandsZAddFirst(log_id, key, value, timestamp) ==
    << [cmd |-> "zadd", member |-> Str(log_id), score |-> timestamp],
       [cmd |-> "hset", field |-> Str(log_id),
        value |-> JsonDumps([timestamp |-> timestamp, log_id |-> Str(log_id),
                             key |-> key, value |-> value,
                             log_type |-> value])] >>

\* the commands an info-log write sends, in the order log() awaits them
InfoCommands(log_id, key, value, timestamp) ==
    << [cmd |-> "hset", field |-> Str(log_id),
        value |-> JsonDumps([timestamp |-> timestamp, log_id |-> Str(log_id),
                             key |-> key, value |-> value,
                             log_type |-> value])],
       [cmd |-> "zadd", member |-> Str(log_id), score |-> timestamp] >>

\* no get_run_info call was made yet
NoReader == [pc |-> "none"]

\* get_run_info(limit, log_type_filter) up to its first `while` test
ReaderStart(limit, log_type_filter) ==
    [pc |-> IF 0 < limit THEN "zrevrange" ELSE "returned",
     limit |-> limit, log_type_filter |-> log_type_filter,
     run_info_list |-> <<>>, start |-> 0, log_ids |-> <<>>, n |-> 0]

\* `log_ids = await self.redis.zrevrange(...)`, `if not log_ids: break`,
\* `start += count_per_batch`
ReaderRange(r, sorted) ==
    LET log_ids == ZRevRange(sorted, r.start, r.start + count_per_batch - 1)
    IN  IF log_ids = <<>>
        THEN [r EXCEPT !.pc = "returned", !.log_ids = <<>>]
        ELSE [r EXCEPT !.pc = "hget", !.log_ids = log_ids, !.n = 1,
                       !.start = @ + count_per_batch]

\* one turn of `for log_id in log_ids`: the hget, json.loads, the filter,
\* the append, and the loop tests that follow it
ReaderGet(r, hash) ==
    LET got == HGet(hash, r.log_ids[r.n])
    IN  IF got = None
        THEN \* json.loads(None)
             [r EXCEPT !.pc = "raised"]
        ELSE LET log_entry == JsonLoads(got)
                 list == IF Truthy(r.log_type_filter)
                            => log_entry.log_type = r.log_type_filter
                         THEN Append(r.run_info_list,
                                     RunInfo(UUID(log_entry.log_id),
                                             log_entry.log_type))
                         ELSE r.run_info_list
             IN  IF Len(list) >= r.limit
                 THEN [r EXCEPT !.pc = "returned", !.run_info_list = list]
                 ELSE IF r.n < Len(r.log_ids)
                 THEN [r EXCEPT !.run_info_list = list, !.n = @ + 1]
                 ELSE [r EXCEPT !.pc = "zrevrange", !.run_info_list = list]

\* `return run_info_list[:limit]`
ReaderResult(r) ==
    SubSeq(r.run_info_list, 1, IF r.limit < Len(r.run_info_list) THEN r.limit
                               ELSE Len(r.run_info_list))

(***************************************************************************)
(* The provider-level specifications: every call goes to one provider of   *)
(* each kind.                                                              *)
(***************************************************************************)
\* the run_ids lists callers pass: each run at most once
RunIdLists ==
    {s \in UNION {[1..n -> Runs] : n \in 0..Cardinality(Runs)} :
        \A i, j \in 1..Len(s) : i # j => s[i] # s[j]}

Init ==
    /\ clock = 0
    /\ nInfo = 0
    /\ sqlLogs = [b \in Relational |-> <<>>]
    /\ sqlInfo = [b \in Relational |-> <<>>]
    /\ redisLists = [k \in {Str(r) : r \in Runs} |-> <<>>]
    /\ redisHash = <<>>
    /\ redisSorted = <<>>
    /\ sqlThroughput = [b \in Relational |-> <<>>]
    /\ lastInfoType = [r \in Runs |-> None]
    /\ ret = NoCall
    /\ config = None
    /\ isConfigured = FALSE
    /\ openConns = 0
    /\ fret = NoFacadeCall
    /\ providers = [b \in Backends |-> NewProvider(b)]
    /\ writers = <<>>
    /\ reader = NoReader

\* A read leaves everything but `ret` as it was, so a read made right after
\* another read reaches no state that a single read does not reach: the reads
\* are taken from the states a write (or the start) left.
JustRead == ret.op \in {"get_logs", "get_run_info"}

\* provider.log(log_id, key, value, is_info_log), dt ticks after the last call
Log(log_id, key, value, is_info_log, dt) ==
    /\ IF is_info_log THEN nInfo < MaxInfo
                      ELSE Len(sqlLogs["local"]) < MaxLogs
    /\ clock' = clock + dt
    /\ nInfo' = IF is_info_log THEN nInfo + 1 ELSE nInfo
    /\ lastInfoType' = IF is_info_log /\ Contains(key, "type")
                       THEN [lastInfoType EXCEPT ![log_id] = value]
                       ELSE lastInfoType
    /\ LET l == LocalLog(sqlLogs["local"], sqlInfo["local"], clock',
                         log_id, key, value, is_info_log)
           p == PostgresLog(sqlLogs["postgres"], sqlInfo["postgres"], clock',
                            log_id, key, value, is_info_log)
           r == RedisLog(redisLists, redisHash, redisSorted, clock',
                         log_id, key, value, is_info_log)
       IN  /\ sqlLogs' = [local |-> l.logs, postgres |-> p.logs]
           /\ sqlInfo' = [local |-> l.info, postgres |-> p.info]
           /\ redisLists' = r.lists
           /\ redisHash' = r.hash
           /\ redisSorted' = r.sorted
           /\ UNCHANGED <<sqlThroughput, facadeVars, providers, taskVars>>
           /\ ret' = [NoCall EXCEPT
                        !.op = "log", !.log_id = log_id, !.key = key,
                        !.value = value, !.is_info_log = is_info_log,
                        !.out = [local |-> Raise(l.exc),
                                 postgres |-> Raise(p.exc),
                                 redis |-> Raise(r.exc)]]

LogEvent ==
    \E log_id \in Runs, p \in EventPayloads, dt \in {1, TicksPerSecond} :
        Log(log_id, p.key, p.value, FALSE, dt)

LogInfo ==
    \E log_id \in Runs, p \in InfoPayloads, dt \in {1, TicksPerSecond} :
        Log(log_id, p.key, p.value, TRUE, dt)

\* The orders in which the engine may hand back the rows of a table under
\* ORDER BY timestamp DESC: every order of the rows that puts a later
\* timestamp first.  tie[i] is the place of row i in that order.
TieOrders(table) ==
    {tie \in Permutations(1..Len(table)) :
        \A i, j \in 1..Len(table) :
            table[i].timestamp > table[j].timestamp => tie[i] < tie[j]}

\* provider.get_logs(run_ids, limit_per_run)
GetLogs ==
    \E run_ids \in RunIdLists, limit_per_run \in 0..MaxLimit :
        /\ ~JustRead
        /\ \E tl \in TieOrders(sqlLogs["local"]),
              tp \in TieOrders(sqlLogs["postgres"]) :
            ret' = [NoCall EXCEPT
                      !.op = "get_logs", !.run_ids = run_ids,
                      !.limit = limit_per_run,
                      !.out = [local |-> LocalGetLogs(sqlLogs["local"], run_ids,
                                                      limit_per_run, tl),
                               postgres |-> PostgresGetLogs(sqlLogs["postgres"],
                                                            run_ids,
                                                            limit_per_run, tp),
                               redis |-> RedisGetLogs(redisLists, run_ids,
                                                      limit_per_run)]]
        /\ UNCHANGED <<clock, nInfo, storeVars, lastInfoType, facadeVars, providers, taskVars>>

\* provider.get_run_info(limit, log_type_filter)
GetRunInfo ==
    \E limit \in 0..MaxLimit, log_type_filter \in {None} \cup LogTypes :
        /\ ~JustRead
        /\ \E tl \in TieOrders(sqlInfo["local"]),
              tp \in TieOrders(sqlInfo["postgres"]) :
            ret' = [NoCall EXCEPT
                      !.op = "get_run_info", !.limit = limit,
                      !.filter = log_type_filter,
                      !.out = [local |-> LocalGetRunInfo(sqlInfo["local"], limit,
                                                         log_type_filter, tl),
                               postgres |-> PostgresGetRunInfo(
                                                sqlInfo["postgres"], limit,
                                                log_type_filter, tp),
                               redis |-> RedisGetRunInfo(redisHash, redisSorted,
                                                         limit,
                                                         log_type_filter)]]
        /\ UNCHANGED <<clock, nInfo, storeVars, lastInfoType, facadeVars, providers, taskVars>>

NextEvents == LogEvent \/ GetLogs
SpecEvents == Init /\ [][NextEvents]_vars

NextRunInfo == LogInfo \/ GetRunInfo
SpecRunInfo == Init /\ [][NextRunInfo]_vars

(***************************************************************************)
(* The provider objects' own life: init() and close() called directly, in  *)
(* any order, with events logged while the relational connections are      *)
(* open.                                                                   *)
(***************************************************************************)
MaxProviderCalls == 3

\* init() and close() calls made so far, on all the objects
ProviderCalls ==
    providers["local"].calls + providers["postgres"].calls
        + providers["redis"].calls

\* await provider.init()
ProviderInit(b) ==
    /\ ProviderCalls < MaxProviderCalls
    /\ LET r == IF b \in Relational THEN RelationalInit(providers[b])
                ELSE RedisInit(providers[b])
       IN  /\ providers' = [providers EXCEPT ![b] = r.val]
           /\ ret' = [op |-> "init", backend |-> b, exc |-> r.exc]
    /\ UNCHANGED <<clock, nInfo, storeVars, lastInfoType, facadeVars, taskVars>>

\* await provider.close()
ProviderClose(b) ==
    /\ ProviderCalls < MaxProviderCalls
    /\ LET r == IF b \in Relational THEN RelationalClose(providers[b])
                ELSE RedisClose(providers[b])
       IN  /\ providers' = [providers EXCEPT ![b] = r.val]
           /\ ret' = [op |-> "close", backend |-> b, exc |-> r.exc]
    /\ UNCHANGED <<clock, nInfo, storeVars, lastInfoType, facadeVars, taskVars>>

\* await provider.__aenter__()
ProviderEnter(b) ==
    /\ ProviderCalls < MaxProviderCalls
    /\ LET r == IF b \in Relational THEN RelationalEnter(providers[b])
                ELSE RedisEnter(providers[b])
       IN  /\ providers' = [providers EXCEPT ![b] = r.val]
           /\ ret' = [op |-> "__aenter__", backend |-> b, exc |-> r.exc]
    /\ UNCHANGED <<clock, nInfo, storeVars, lastInfoType, facadeVars, taskVars>>

\* provider.log(...) of an event on each provider, once the tables are there
LogWhileOpen ==
    /\ \A b \in Relational : providers[b].conn = "open"
    /\ LogEvent

NextLifecycle ==
    \/ \E b \in Backends : ProviderInit(b)
    \/ \E b \in Backends : ProviderClose(b)
    \/ \E b \in Backends : ProviderEnter(b)
    \/ LogWhileOpen
SpecLifecycle == Init /\ [][NextLifecycle]_vars

(***************************************************************************)
(* Concurrent info-log writes and one get_run_info on the Redis provider,  *)
(* over a store that is empty or holds one full batch of runs.             *)
(***************************************************************************)
MaxWriters == 2

\* the i-th run of the store as it is found
RunName(i) == "run" \o ToString(i)

\* the run-info hash and the sorted set after runs 1..n were logged once
\* each, one tick apart
StoredHash(n) ==
    [m \in {Str(RunName(i)) : i \in 1..n} |->
        LET i == CHOOSE i \in 1..n : Str(RunName(i)) = m
        IN  JsonDumps([timestamp |-> PythonNow(i), log_id |-> m,
                       key |-> "pipeline_type", value |-> "search",
                       log_type |-> "search"])]
StoredSorted(n) ==
    [m \in {Str(RunName(i)) : i \in 1..n} |->
        PythonNow(CHOOSE i \in 1..n : Str(RunName(i)) = m)]

InitConcurrent ==
    /\ \E n \in {0, count_per_batch} :
          /\ clock = n
          /\ redisHash = StoredHash(n)
          /\ redisSorted = StoredSorted(n)
    /\ nInfo = 0
    /\ sqlLogs = [b \in Relational |-> <<>>]
    /\ sqlInfo = [b \in Relational |-> <<>>]
    /\ redisLists = [k \in {Str(r) : r \in Runs} |-> <<>>]
    /\ sqlThroughput = [b \in Relational |-> <<>>]
    /\ lastInfoType = [r \in Runs |-> None]
    /\ ret = NoCall
    /\ config = None
    /\ isConfigured = FALSE
    /\ openConns = 0
    /\ fret = NoFacadeCall
    /\ providers = [b \in Backends |-> NewProvider(b)]
    /\ writers = <<>>
    /\ reader = NoReader

\* a caller enters log(log_id, "pipeline_type", "search", is_info_log=True):
\* the timestamp is taken and the entry built; log_id is the oldest run of a
\* full store or a run the store does not hold
WriterCall ==
    \E log_id \in {RunName(1), RunName(count_per_batch + 1)} :
        /\ Len(writers) < MaxWriters
        /\ clock' = clock + 1
        /\ writers' = Append(writers,
              [log_id |-> log_id, timestamp |-> PythonNow(clock'), sent |-> 0])
        /\ UNCHANGED <<nInfo, storeVars, lastInfoType, ret, facadeVars,
                       providers, reader>>

\* the next command of the w-th write reaches the store
WriterSend(w) ==
    /\ writers[w].sent < 2
    /\ LET c == InfoCommands(writers[w].log_id, "pipeline_type", "search",
                             writers[w].timestamp)[writers[w].sent + 1]
       IN  /\ redisHash' = IF c.cmd = "hset"
                           THEN HSet(redisHash, c.field, c.value)
                           ELSE redisHash
           /\ redisSorted' = IF c.cmd = "zadd"
                             THEN ZAdd(redisSorted, c.member, c.score)
                             ELSE redisSorted
    /\ writers' = [writers EXCEPT ![w].sent = @ + 1]
    /\ UNCHANGED <<clock, nInfo, sqlLogs, sqlInfo, sqlThroughput, redisLists,
                   lastInfoType, ret, facadeVars, providers, reader>>

\* a caller enters get_run_info(limit): one run, or one more than a batch
ReaderCall ==
    \E limit \in {1, count_per_batch + 1} :
        /\ reader = NoReader
        /\ reader' = ReaderStart(limit, None)
        /\ UNCHANGED <<clock, nInfo, storeVars, lastInfoType, ret, facadeVars,
                       providers, writers>>

\* the range read of the call in progress
ReaderZRevRange ==
    /\ reader.pc = "zrevrange"
    /\ reader' = ReaderRange(reader, redisSorted)
    /\ UNCHANGED <<clock, nInfo, storeVars, lastInfoType, ret, facadeVars,
                   providers, writers>>

\* the next hget of the call in progress
ReaderHGet ==
    /\ reader.pc = "hget"
    /\ reader' = ReaderGet(reader, redisHash)
    /\ UNCHANGED <<clock, nInfo, storeVars, lastInfoType, ret, facadeVars,
                   providers, writers>>

NextConcurrent ==
    \/ WriterCall
    \/ \E w \in 1..Len(writers) : WriterSend(w)
    \/ ReaderCall
    \/ ReaderZRevRange
    \/ ReaderHGet
SpecConcurrent == InitConcurrent /\ [][NextConcurrent]_vars

(***************************************************************************)
(* Throughput samples.                                                     *)
(***************************************************************************)
\* An Optional[float]: <<>> is None, <<x>> the number x.
NoTime == <<>>
\* Python's truth value of an Optional[float]
NumTruthy(x) == x # NoTime /\ x[1] # 0

\* conn.execute(sql, timestamp, num_requests, request_type): aiosqlite's
\* execute takes the statement and one sequence of parameters, so the call is
\* refused with a TypeError before any statement reaches SQLite
LocalLogThroughput(throughput, timestamp, num_requests, request_type) ==
    [exc |-> "TypeError", throughput |-> throughput]

\* `self.connection`: the provider has `conn`, no `connection`
PostgresLogThroughput(throughput, timestamp, num_requests, request_type) ==
    [exc |-> "AttributeError", throughput |-> throughput]

\* RedisKVLoggingProvider defines neither log_throughput nor
\* get_throughput_data
RedisLogThroughput(timestamp, num_requests, request_type) ==
    [exc |-> "AttributeError"]

\* SQLite's datetime(x, 'unixepoch') of x ticks: the second x falls in
UnixEpoch(x) == x \div TicksPerSecond

\* WHERE timestamp BETWEEN datetime(?, 'unixepoch') AND datetime(?, 'unixepoch')
LocalGetThroughputData(throughput, start_time, end_time) ==
    LET rows == IF NumTruthy(start_time) /\ NumTruthy(end_time)
                THEN SelectSeq(throughput,
                               LAMBDA row :
                                   /\ UnixEpoch(start_time[1]) <= row.timestamp
                                   /\ row.timestamp <= UnixEpoch(end_time[1]))
                ELSE throughput
    IN  Ok(rows)

PostgresGetThroughputData(throughput, start_time, end_time) ==
    Raise("AttributeError")

RedisGetThroughputData(start_time, end_time) ==
    Raise("AttributeError")

\* samples the table may hold in one behaviour
MaxSamples == 2
\* the seconds their timestamps fall in
SampleSeconds == 0..2
\* The table throughput_logs of the database file as the provider finds it:
\* rows of earlier processes and of other writers of the file.
ThroughputTables ==
    UNION { [1..n -> [timestamp : SampleSeconds, num_requests : {5},
                      request_type : {"search"}]] : n \in 0..MaxSamples }

\* the times callers pass, in ticks: whole seconds and one inside a second
SampleTimes == {TicksPerSecond, 2 * TicksPerSecond}
TimeBounds == {NoTime, <<0>>, <<2 * TicksPerSecond>>}
ProviderTimeBounds ==
    TimeBounds \cup {<<TicksPerSecond>>,
                     <<TicksPerSecond + TicksPerSecond \div 2>>}

InitThroughput ==
    /\ clock = 0
    /\ nInfo = 0
    /\ sqlLogs = [b \in Relational |-> <<>>]
    /\ sqlInfo = [b \in Relational |-> <<>>]
    /\ redisLists = [k \in {Str(r) : r \in Runs} |-> <<>>]
    /\ redisHash = <<>>
    /\ redisSorted = <<>>
    /\ \E t \in ThroughputTables :
          sqlThroughput = [b \in Relational |-> t]
    /\ lastInfoType = [r \in Runs |-> None]
    /\ ret = NoCall
    /\ config = None
    /\ isConfigured = FALSE
    /\ openConns = 0
    /\ fret = NoFacadeCall
    /\ providers = [b \in Backends |-> NewProvider(b)]
    /\ writers = <<>>
    /\ reader = NoReader

\* provider.log_throughput(timestamp, num_requests, request_type)
LogThroughput ==
    \E timestamp \in SampleTimes :
        LET l == LocalLogThroughput(sqlThroughput["local"], timestamp, 5,
                                    "search")
            g == PostgresLogThroughput(sqlThroughput["postgres"], timestamp,
                                       5, "search")
            r == RedisLogThroughput(timestamp, 5, "search")
        IN  /\ sqlThroughput' = [local |-> l.throughput,
                                 postgres |-> g.throughput]
            /\ ret' = [op |-> "log_throughput", timestamp |-> timestamp,
                       out |-> [local |-> Raise(l.exc),
                                postgres |-> Raise(g.exc),
                                redis |-> Raise(r.exc)]]
            /\ UNCHANGED <<clock, nInfo, sqlLogs, sqlInfo, redisLists,
                           redisHash, redisSorted, lastInfoType, facadeVars,
                           providers, taskVars>>

\* provider.get_throughput_data(start_time, end_time)
GetThroughputData ==
    \E start_time \in ProviderTimeBounds, end_time \in ProviderTimeBounds :
        /\ ret' = [op |-> "get_throughput_data", start_time |-> start_time,
                   end_time |-> end_time,
                   out |-> [local |-> LocalGetThroughputData(
                                         sqlThroughput["local"], start_time,
                                         end_time),
                            postgres |-> PostgresGetThroughputData(
                                            sqlThroughput["postgres"],
                                            start_time, end_time),
                            redis |-> RedisGetThroughputData(start_time,
                                                             end_time)]]
        /\ UNCHANGED <<clock, nInfo, storeVars, lastInfoType, facadeVars, providers, taskVars>>

NextThroughput == LogThroughput \/ GetThroughputData
SpecThroughput == InitThroughput /\ [][NextThroughput]_vars

(***************************************************************************)
(* The facade: KVLoggingSingleton.                                         *)
(***************************************************************************)
\* connections a behaviour may leave open
MaxOpenConns == 1
\* rows and info calls the facade may write in one behaviour
MaxFacadeWrites == 1

\* Where the store client fails during one facade call: at the first step
\* named by `at` (building the provider, connecting, creating the tables,
\* the provider call), and `close` tells whether closing fails too.
Failures ==
    { [at |-> "none", close |-> FALSE], [at |-> "none", close |-> TRUE],
      [at |-> "construct", close |-> FALSE],
      [at |-> "connect", close |-> FALSE],
      [at |-> "create", close |-> FALSE],
      [at |-> "call", close |-> FALSE], [at |-> "call", close |-> TRUE] }

\* the collections of all the stores
Stores ==
    [logs |-> sqlLogs, info |-> sqlInfo, throughput |-> sqlThroughput,
     lists |-> redisLists, hash |-> redisHash, sorted |-> redisSorted]

\* What a provider call did: exc and val as above, st the collections after
\* it, touches whether it sent a command to the store (the Redis client
\* connects on its first command).
Called(exc, val, touches, st) ==
    [exc |-> exc, val |-> val, touches |-> touches, st |-> st]

\* provider.log(...) of the provider named b
ProviderLog(b, st, t, log_id, key, value, is_info_log) ==
    IF b = "local"
    THEN LET l == LocalLog(st.logs[b], st.info[b], t, log_id, key, value,
                           is_info_log)
         IN  Called(l.exc, <<>>, l.exc # "ValueError",
                    [st EXCEPT !.logs[b] = l.logs, !.info[b] = l.info])
    ELSE IF b = "postgres"
    THEN LET l == PostgresLog(st.logs[b], st.info[b], t, log_id, key, value,
                              is_info_log)
         IN  Called(l.exc, <<>>, l.exc # "ValueError",
                    [st EXCEPT !.logs[b] = l.logs, !.info[b] = l.info])
    ELSE LET r == RedisLog(st.lists, st.hash, st.sorted, t, log_id, key,
                           value, is_info_log)
         IN  Called(r.exc, <<>>, r.exc # "ValueError",
                    [st EXCEPT !.lists = r.lists, !.hash = r.hash,
                               !.sorted = r.sorted])

\* provider.get_run_info(limit, log_type_filter=log_type_filter)
ProviderGetRunInfo(b, st, limit, log_type_filter, tie) ==
    IF b = "local"
    THEN Called("none", LocalGetRunInfo(st.info[b], limit, log_type_filter,
                                        tie).val, TRUE, st)
    ELSE IF b = "postgres"
    THEN LET r == PostgresGetRunInfo(st.info[b], limit, log_type_filter, tie)
         IN  Called(r.exc, r.val, TRUE, st)
    ELSE LET r == RedisGetRunInfo(st.hash, st.sorted, limit, log_type_filter)
         IN  Called(r.exc, r.val, limit > 0, st)

\* provider.get_logs(run_ids, limit_per_run)
ProviderGetLogs(b, st, run_ids, limit_per_run, tie) ==
    IF b = "local"
    THEN LET r == LocalGetLogs(st.logs[b], run_ids, limit_per_run, tie)
         IN  Called(r.exc, r.val, r.exc = "none", st)
    ELSE IF b = "postgres"
    THEN LET r == PostgresGetLogs(st.logs[b], run_ids, limit_per_run, tie)
         IN  Called(r.exc, r.val, r.exc = "none", st)
    ELSE LET r == RedisGetLogs(st.lists, run_ids, limit_per_run)
         IN  Called(r.exc, r.val, run_ids # <<>>, st)

\* provider.log_throughput(timestamp, num_requests, request_type)
ProviderLogThroughput(b, st, timestamp, num_requests, request_type) ==
    IF b = "local"
    THEN LET r == LocalLogThroughput(st.throughput[b], timestamp,
                                     num_requests, request_type)
         IN  Called(r.exc, <<>>, FALSE,
                    [st EXCEPT !.throughput[b] = r.throughput])
    ELSE IF b = "postgres"
    THEN LET r == PostgresLogThroughput(st.throughput[b], timestamp,
                                        num_requests, request_type)
         IN  Called(r.exc, <<>>, FALSE,
                    [st EXCEPT !.throughput[b] = r.throughput])
    ELSE Called(RedisLogThroughput(timestamp, num_requests,
                                   request_type).exc, <<>>, FALSE, st)

\* provider.get_throughput_data(start_time, end_time)
ProviderGetThroughputData(b, st, start_time, end_time) ==
    IF b = "local"
    THEN LET r == LocalGetThroughputData(st.throughput[b], start_time,
                                         end_time)
         IN  Called(r.exc, r.val, TRUE, st)
    ELSE IF b = "postgres"
    THEN LET r == PostgresGetThroughputData(st.throughput[b], start_time,
                                            end_time)
         IN  Called(r.exc, r.val, FALSE, st)
    ELSE LET r == RedisGetThroughputData(start_time, end_time)
         IN  Called(r.exc, r.val, FALSE, st)

\* how `async with cls.get_instance() as provider: <call>` ends
Ended(exc, val, called, call_exc, opened, still_open, st) ==
    [exc |-> exc, val |-> val, called |-> called, call_exc |-> call_exc,
     opened |-> opened, still_open |-> still_open, st |-> st]

\* What the provider call raises: its own exception, or the store client's
\* when that fails under it.
CallExc(call, fail) ==
    IF call.exc # "none" THEN call.exc
    ELSE IF fail.at = "call" /\ call.touches THEN "StorageError"
    ELSE "none"

\* __aexit__ after the body: close() runs, and what it raises replaces what
\* the body raised; __aexit__ returns None, so the body's exception is not
\* suppressed.  The store clients give the connection up even when their
\* close fails.
AfterExit(call_exc, close_fails) ==
    IF close_fails THEN "CloseError" ELSE call_exc

\* the relational providers: __aenter__ calls init(), which connects and
\* then creates the tables; __aexit__ runs only if __aenter__ returned
ScopedRelational(fail, call, st) ==
    IF fail.at = "connect"
    THEN Ended("ConnectionError", <<>>, FALSE, "none", 0, 0, st)
    ELSE IF fail.at = "create"
    THEN Ended("StorageError", <<>>, FALSE, "none", 1, 1, st)
    ELSE LET call_exc == CallExc(call, fail)
             exc == AfterExit(call_exc, fail.close)
         IN  Ended(exc, IF exc = "none" THEN call.val ELSE <<>>, TRUE,
                   call_exc, 1, 0, IF call_exc = "none" THEN call.st ELSE st)

\* the Redis provider: __aenter__ returns self, the client connects on its
\* first command, close() drops what it opened
ScopedRedis(fail, call, st) ==
    LET connects == call.touches /\ call.exc = "none"
        call_exc == IF connects /\ fail.at = "connect"
                    THEN "ConnectionError"
                    ELSE CallExc(call, fail)
        opened == IF connects /\ fail.at # "connect" THEN 1 ELSE 0
        exc == AfterExit(call_exc, fail.close /\ opened > 0)
    IN  Ended(exc, IF exc = "none" THEN call.val ELSE <<>>, TRUE, call_exc,
              opened, 0, IF call_exc = "none" THEN call.st ELSE st)

\* get_instance(), then the scoped call on the provider it built
Scoped(cfg, fail, call, st) ==
    IF cfg = None
    THEN \* cls._config was never set
         Ended("AttributeError", <<>>, FALSE, "none", 0, 0, st)
    ELSE IF fail.at = "construct"
    THEN Ended("ValueError", <<>>, FALSE, "none", 0, 0, st)
    ELSE IF cfg \in Relational
    THEN ScopedRelational(fail, call, st)
    ELSE ScopedRedis(fail, call, st)

\* a read: whatever the scoped call raises reaches the caller
Propagate(op, e) ==
    [op |-> op, outcome |-> IF e.exc = "none" THEN "returned" ELSE "raised",
     exc |-> e.exc, val |-> e.val, called |-> e.called,
     call_exc |-> e.call_exc, opened |-> e.opened,
     still_open |-> e.still_open, arg |-> <<>>]

\* a write whose except clause catches nothing
SwallowNothing(op, e) == Propagate(op, e)

\* a write: `except Exception as e: logger.error(...)`, then return None
Swallow(op, e) ==
    [op |-> op, outcome |-> "returned", exc |-> e.exc, val |-> <<>>,
     called |-> e.called, call_exc |-> e.call_exc, opened |-> e.opened,
     still_open |-> e.still_open, arg |-> <<>>]

\* the facade call ended as e: the stores and the open connections after it
Finish(e) ==
    /\ sqlLogs' = e.st.logs
    /\ sqlInfo' = e.st.info
    /\ sqlThroughput' = e.st.throughput
    /\ redisLists' = e.st.lists
    /\ redisHash' = e.st.hash
    /\ redisSorted' = e.st.sorted
    /\ openConns' = openConns + e.still_open

\* the provider the facade would build, for the row budget
RowsWritten ==
    IF config = "redis"
    THEN Len(redisLists[Str(RunSeq[1])]) + Len(redisLists[Str(RunSeq[2])])
    ELSE IF config \in Relational THEN Len(sqlLogs[config]) ELSE 0

\* The last facade call was a read that changed nothing: a further read or
\* throughput write starts from the same stores and is taken from the state
\* before it.
JustObserved ==
    /\ fret.op \in {"get_run_info", "get_logs", "get_throughput_data",
                    "get_analytics"}
    /\ fret.still_open = 0

\* The last facade call was a throughput write that stored nothing and left no
\* connection open: but for `fret`, the state is the one before it, so only
\* the read of the throughput series is taken from here.
JustFailedThroughput ==
    /\ fret.op = "log_throughput"
    /\ ~(fret.called /\ fret.call_exc = "none")
    /\ fret.still_open = 0

\* the last facade call left the stores and the connections as they were
NothingChanged == JustObserved \/ JustFailedThroughput

\* The scoped call gets as far as the provider call.  When it does not, the
\* arguments are never looked at, and one value of each stands for all.
ReachesCall(cfg, fail) ==
    /\ cfg # None
    /\ fail.at # "construct"
    /\ cfg \in Relational => fail.at \notin {"connect", "create"}

\* a configure() that stores whatever it is given
SetConfigAlways(is_configured, cfg, logging_config) ==
    [exc |-> "none", config |-> logging_config, isConfigured |-> TRUE]

\* `if not cls._is_configured: ... else: raise Exception(...)`
SetConfig(is_configured, cfg, logging_config) ==
    IF ~is_configured
    THEN [exc |-> "none", config |-> logging_config, isConfigured |-> TRUE]
    ELSE [exc |-> "Exception", config |-> cfg, isConfigured |-> is_configured]

\* KVLoggingSingleton.configure(logging_config)
Configure ==
    \E provider \in Backends :
        /\ ~NothingChanged
        /\ LET c == SetConfig(isConfigured, config, provider)
           IN  /\ config' = c.config
               /\ isConfigured' = c.isConfigured
               /\ fret' = [NoFacadeCall EXCEPT
                              !.op = "configure",
                              !.outcome = IF c.exc = "none" THEN "returned"
                                          ELSE "raised",
                              !.exc = c.exc,
                              !.arg = <<provider>>]
        /\ UNCHANGED <<clock, nInfo, storeVars, lastInfoType, ret, openConns, providers, taskVars>>

\* KVLoggingSingleton.log(log_id, key, value, is_info_log)
FacadeLog ==
    \E log_id \in Runs, is_info_log \in BOOLEAN,
       p \in EventPayloads \cup InfoPayloads, dt \in {1, TicksPerSecond},
       fail \in Failures :
        /\ ~NothingChanged
        /\ openConns < MaxOpenConns
        /\ RowsWritten + nInfo < MaxFacadeWrites
        /\ is_info_log <=> p \in InfoPayloads
        /\ LET call == ProviderLog(config, Stores, clock + dt, log_id, p.key,
                                   p.value, is_info_log)
               e == Scoped(config, fail, call, Stores)
               stored == e.called /\ (is_info_log \/ e.call_exc = "none")
           IN  /\ Finish(e)
               /\ fret' = Swallow("log", e)
               /\ clock' = IF stored THEN clock + dt ELSE clock
               /\ nInfo' = IF stored /\ is_info_log THEN nInfo + 1 ELSE nInfo
               /\ lastInfoType' =
                     IF e.called /\ e.call_exc = "none" /\ is_info_log
                     THEN [lastInfoType EXCEPT ![log_id] = p.value]
                     ELSE lastInfoType
        /\ UNCHANGED <<ret, config, isConfigured, providers, taskVars>>

\* KVLoggingSingleton.get_run_info(limit, log_type_filter)
FacadeGetRunInfo ==
    \E fail \in Failures :
    \E limit \in (IF ReachesCall(config, fail) THEN 0..MaxLimit ELSE {0}),
       log_type_filter \in (IF ReachesCall(config, fail)
                            THEN {None} \cup LogTypes ELSE {None}) :
        /\ ~NothingChanged
        /\ openConns < MaxOpenConns
        /\ \E tie \in (IF config \in Relational /\ ReachesCall(config, fail)
                       THEN TieOrders(sqlInfo[config]) ELSE {<<>>}) :
            LET call == ProviderGetRunInfo(config, Stores, limit,
                                           log_type_filter, tie)
                e == Scoped(config, fail, call, Stores)
            IN  /\ Finish(e)
                /\ fret' = Propagate("get_run_info", e)
        /\ UNCHANGED <<clock, nInfo, lastInfoType, ret, config, isConfigured, providers, taskVars>>

\* KVLoggingSingleton.get_logs(run_ids, limit_per_run)
FacadeGetLogs ==
    \E fail \in Failures :
    \E run_ids \in (IF ReachesCall(config, fail) THEN RunIdLists ELSE {<<>>}),
       limit_per_run \in (IF ReachesCall(config, fail) THEN 0..MaxLimit
                          ELSE {0}) :
        /\ ~NothingChanged
        /\ openConns < MaxOpenConns
        /\ \E tie \in (IF config \in Relational /\ ReachesCall(config, fail)
                       THEN TieOrders(sqlLogs[config]) ELSE {<<>>}) :
            LET call == ProviderGetLogs(config, Stores, run_ids,
                                        limit_per_run, tie)
                e == Scoped(config, fail, call, Stores)
            IN  /\ Finish(e)
                /\ fret' = Propagate("get_logs", e)
        /\ UNCHANGED <<clock, nInfo, lastInfoType, ret, config, isConfigured, providers, taskVars>>


\* KVLoggingSingleton.log_throughput(timestamp, num_requests, request_type)
FacadeLogThroughput ==
    \E timestamp \in SampleTimes, fail \in Failures :
        /\ ~NothingChanged
        /\ openConns < MaxOpenConns
        /\ LET call == ProviderLogThroughput(config, Stores, timestamp, 5,
                                             "search")
               e == Scoped(config, fail, call, Stores)
           IN  /\ Finish(e)
               /\ fret' = [Swallow("log_throughput", e) EXCEPT
                              !.arg = <<timestamp, 5, "search">>]
        /\ UNCHANGED <<clock, nInfo, lastInfoType, ret, config, isConfigured, providers, taskVars>>

\* KVLoggingSingleton.get_throughput_data(start_time, end_time)
FacadeGetThroughputData ==
    \E fail \in Failures :
    \E start_time \in (IF ReachesCall(config, fail) THEN TimeBounds
                       ELSE {NoTime}),
       end_time \in (IF ReachesCall(config, fail) THEN TimeBounds
                     ELSE {NoTime}) :
        /\ ~JustObserved
        /\ openConns < MaxOpenConns
        /\ LET call == ProviderGetThroughputData(config, Stores, start_time,
                                                 end_time)
               e == Scoped(config, fail, call, Stores)
           IN  /\ Finish(e)
               /\ fret' = [Propagate("get_throughput_data", e) EXCEPT
                              !.arg = <<start_time, end_time>>]
        /\ UNCHANGED <<clock, nInfo, lastInfoType, ret, config, isConfigured, providers, taskVars>>

(***************************************************************************)
(* The analytics engine: KVLoggingSingleton.process_logs.                  *)
(***************************************************************************)
\* A Python dict, in insertion order: a sequence of <<key, value>> pairs.
DictKeys(d) == [i \in 1..Len(d) |-> d[i][1]]
DictValues(d) == [i \in 1..Len(d) |-> d[i][2]]
DictHas(d, k) == \E i \in 1..Len(d) : d[i][1] = k
\* d.get(k, default)
DictGet(d, k, default) ==
    IF DictHas(d, k)
    THEN d[CHOOSE i \in 1..Len(d) : d[i][1] = k][2]
    ELSE default
\* d[k] = v: an existing key keeps its place, a new key goes last
DictSet(d, k, v) ==
    IF DictHas(d, k)
    THEN [i \in 1..Len(d) |-> IF d[i][1] = k THEN <<k, v>> ELSE d[i]]
    ELSE Append(d, <<k, v>>)

\* the characters \d and \w match, among those the values below are made of
Digits == {"0", "1", "2", "3", "4", "5", "6", "7", "8", "9"}
WordChars ==
    Digits \cup {"_"} \cup
    {"a", "b", "c", "d", "e", "f", "g", "h", "i", "j", "k", "l", "m", "n",
     "o", "p", "q", "r", "s", "t", "u", "v", "w", "x", "y", "z"}
CharAt(s, i) == SubSeq(s, i, i)
\* \b between positions i-1 and i of s: exactly one side is a word character
WordBoundary(s, i) ==
    LET before == i > 1 /\ CharAt(s, i - 1) \in WordChars
        after == i <= Len(s) /\ CharAt(s, i) \in WordChars
    IN  before # after
\* re.findall(r'\b\d{3}\b', s): the matches, left to right
RECURSIVE FindAllFrom(_, _)
FindAllFrom(s, i) ==
    IF i + 2 > Len(s) THEN <<>>
    ELSE IF /\ WordBoundary(s, i)
            /\ \A j \in i..(i + 2) : CharAt(s, j) \in Digits
            /\ WordBoundary(s, i + 3)
         THEN <<SubSeq(s, i, i + 2)>> \o FindAllFrom(s, i + 3)
         ELSE FindAllFrom(s, i + 1)
FindAll(s) == FindAllFrom(s, 1)

\* A timestamp as a record carries it: kind "text" is a string in the format
\* "%Y-%m-%d %H:%M:%S" with its date and time parts, "badtext" a string in
\* another format, "datetime" a datetime object, "float" a number.
Timestamp(kind, date, time) == [kind |-> kind, date |-> date, time |-> time]
\* datetime.strptime(ts, timestamp_format).date()
StrptimeDate(ts) ==
    IF ts.kind = "text" THEN [exc |-> "none", date |-> ts.date]
    ELSE IF ts.kind = "badtext" THEN [exc |-> "ValueError", date |-> 0]
    ELSE [exc |-> "TypeError", date |-> 0]

\* A JSON text: wellformed tells whether json.loads accepts it, items is the
\* array it denotes (texts again), fields the object it denotes as a set of
\* <<name, value>> pairs.
JsonText(wellformed, items, fields) ==
    [wellformed |-> wellformed, items |-> items, fields |-> fields]
JsonObject(fields) == JsonText(TRUE, <<>>, fields)
JsonArray(items) == JsonText(TRUE, items, {})
NotJson == JsonText(FALSE, <<>>, {})
HasField(obj, name) == \E f \in obj.fields : f[1] = name
Field(obj, name) == (CHOOSE f \in obj.fields : f[1] = name)[2]

\* the loop `for result_str in results_list`, inside the try: the first
\* entry that does not parse, or has no "score", ends the loop
RECURSIVE AppendScores(_, _, _)
AppendScores(retrieval_scores, results_list, n) ==
    IF n > Len(results_list) THEN retrieval_scores
    ELSE IF ~results_list[n].wellformed THEN retrieval_scores
    ELSE IF ~HasField(results_list[n], "score") THEN retrieval_scores
    ELSE AppendScores(Append(retrieval_scores,
                             Field(results_list[n], "score")),
                      results_list, n + 1)

\* float(text): the number the text denotes
Float(v) == [float |-> v]
IsFloatText(v) ==
    /\ Len(v) > 0
    /\ \A i \in 1..Len(v) : CharAt(v, i) \in Digits \cup {"."}
    /\ Cardinality({i \in 1..Len(v) : CharAt(v, i) = "."}) <= 1
    /\ \E i \in 1..Len(v) : CharAt(v, i) \in Digits

\* the accumulators of process_logs
NoAggregate ==
    [exc |-> "none", error_counts |-> <<>>, error_timestamps |-> <<>>,
     retrieval_scores |-> <<>>, query_timestamps |-> <<>>,
     vector_search_latencies |-> <<>>, rag_generation_latencies |-> <<>>,
     throughput_data |-> <<>>]

\* an extraction that takes the first match
FirstMatch(error_codes) == error_codes[1]
\* error_codes[-1]
LastMatch(error_codes) == error_codes[Len(error_codes)]

\* the branch `if log["key"] == "error"`
ErrorBranch(acc, log) ==
    LET error_codes == FindAll(log.value)
        error_type == LastMatch(error_codes)
        parsed == StrptimeDate(log.timestamp)
        of_day == DictGet(acc.error_timestamps, parsed.date, <<>>)
    IN  IF error_codes = <<>> THEN acc
        ELSE IF parsed.exc # "none" THEN [acc EXCEPT !.exc = parsed.exc]
        ELSE [acc EXCEPT
                !.error_counts =
                    DictSet(@, error_type, DictGet(@, error_type, 0) + 1),
                !.error_timestamps =
                    DictSet(@, parsed.date,
                            DictSet(of_day, error_type,
                                    DictGet(of_day, error_type, 0) + 1))]

\* one pass of `for log in logs`
ProcessLog(acc, log) ==
    IF log.key = "error" THEN ErrorBranch(acc, log)
    ELSE IF log.key = "search_results"
    THEN IF ~log.value.wellformed THEN acc
         ELSE [acc EXCEPT !.retrieval_scores =
                              AppendScores(@, log.value.items, 1)]
    ELSE IF log.key = "search_query"
    THEN [acc EXCEPT !.query_timestamps = Append(@, log.timestamp)]
    ELSE IF log.key = "vector_search_latency"
    THEN IF IsFloatText(log.value)
         THEN [acc EXCEPT !.vector_search_latencies =
                              Append(@, Float(log.value))]
         ELSE [acc EXCEPT !.exc = "ValueError"]
    ELSE IF log.key = "rag_generation_latency"
    THEN IF IsFloatText(log.value)
         THEN [acc EXCEPT !.rag_generation_latencies =
                              Append(@, Float(log.value))]
         ELSE [acc EXCEPT !.exc = "ValueError"]
    ELSE IF log.key = "throughput"
    THEN \* log["value"]["num_requests"] on a string value
         [acc EXCEPT !.exc = "TypeError"]
    ELSE acc

RECURSIVE ProcessLogsFrom(_, _, _)
ProcessLogsFrom(acc, logs, n) ==
    IF n > Len(logs) \/ acc.exc # "none" THEN acc
    ELSE ProcessLogsFrom(ProcessLog(acc, logs[n]), logs, n + 1)

\* str(timestamp) of a date, and the date a label names
DateStr(date) == <<"date", date>>
DateOfLabel(label) == label[2]
\* f"Error Code {error_type}"
ErrorLabel(error_type) == "Error Code " \o error_type

\* the dict process_logs returns
Aggregate(acc) ==
    [error_rates |->
        [labels |-> [d \in 1..Len(acc.error_timestamps) |->
                        DateStr(acc.error_timestamps[d][1])],
         datasets |->
            [i \in 1..Len(acc.error_counts) |->
                [label |-> ErrorLabel(acc.error_counts[i][1]),
                 data |-> [d \in 1..Len(acc.error_timestamps) |->
                              DictGet(acc.error_timestamps[d][2],
                                      acc.error_counts[i][1], 0)]]]],
     error_distribution |->
        [i \in 1..Len(acc.error_counts) |->
            [error_type |-> acc.error_counts[i][1],
             count |-> acc.error_counts[i][2]]],
     retrieval_scores |-> acc.retrieval_scores,
     query_timestamps |-> acc.query_timestamps,
     vector_search_latencies |-> acc.vector_search_latencies,
     rag_generation_latencies |-> acc.rag_generation_latencies,
     throughput_data |-> acc.throughput_data]

\* KVLoggingSingleton.process_logs(logs)
process_logs(logs) ==
    LET acc == ProcessLogsFrom(NoAggregate, logs, 1)
    IN  IF acc.exc # "none" THEN Raise(acc.exc) ELSE Ok(Aggregate(acc))

\* records process_logs is given in one call
MaxRecords == 3
\* the days the records fall on
Days == {0, 1}
\* the values of error records: one code, two codes, no code, a longer number
ErrorValues == {"code 503", "404 then 503", "timeout", "id 5034"}
ScoreEntry(score) == JsonObject({<<"score", score>>})
\* the values of search_results records: arrays of entries, none or one of
\* them malformed
SearchResultValues ==
    { JsonArray(<<ScoreEntry(9), ScoreEntry(4)>>),
      JsonArray(<<NotJson, ScoreEntry(9)>>),
      JsonArray(<<ScoreEntry(9), NotJson, ScoreEntry(4)>>) }
LogRecord(key, value, timestamp) ==
    [key |-> key, value |-> value, timestamp |-> timestamp]
AnalyticsRecords ==
    {LogRecord("error", v, Timestamp("text", d, 0)) :
        v \in ErrorValues, d \in Days}
    \cup {LogRecord("search_results", v, Timestamp("text", 0, 0)) :
            v \in SearchResultValues}
    \cup {LogRecord("search_query", "q", Timestamp("text", 0, 0))}
    \cup {LogRecord("vector_search_latency", v, Timestamp("text", 0, 0)) :
            v \in {"0.5", "fast"}}
AnalyticsInputs == UNION {[1..n -> AnalyticsRecords] : n \in 0..MaxRecords}

InitAnalytics ==
    /\ clock = 0
    /\ nInfo = 0
    /\ sqlLogs = [b \in Relational |-> <<>>]
    /\ sqlInfo = [b \in Relational |-> <<>>]
    /\ redisLists = [k \in {Str(r) : r \in Runs} |-> <<>>]
    /\ redisHash = <<>>
    /\ redisSorted = <<>>
    /\ sqlThroughput = [b \in Relational |-> <<>>]
    /\ lastInfoType = [r \in Runs |-> None]
    /\ \E logs \in AnalyticsInputs : ret = [op |-> "none", logs |-> logs]
    /\ config = None
    /\ isConfigured = FALSE
    /\ openConns = 0
    /\ fret = NoFacadeCall
    /\ providers = [b \in Backends |-> NewProvider(b)]
    /\ writers = <<>>
    /\ reader = NoReader

\* a call of process_logs on the records at hand
ProcessLogs ==
    /\ ret.op = "none"
    /\ ret' = [op |-> "process_logs", logs |-> ret.logs,
               out |-> process_logs(ret.logs)]
    /\ UNCHANGED <<clock, nInfo, storeVars, lastInfoType, facadeVars, providers, taskVars>>

NextAnalytics == ProcessLogs
SpecAnalytics == InitAnalytics /\ [][NextAnalytics]_vars

(***************************************************************************)
(* KVLoggingSingleton.get_analytics.                                       *)
(***************************************************************************)
\* get_run_info(cls, limit: int = 10, log_type_filter = None)
GetRunInfoParams == {"limit", "log_type_filter"}
DefaultLimit == 10
\* get_logs(run_ids=run_ids, limit_per_run=100)
AnalyticsLimitPerRun == 100
\* Python binds a call's keyword arguments to the parameters of that name
\* and refuses, with TypeError, a keyword the signature does not have
AcceptsKeywords(params, keywords) == keywords \subseteq params

SecondsPerDay == 24 * 60 * 60
\* the timestamp of a row as get_logs of provider b hands it over: SQLite
\* text, an asyncpg datetime, the float Redis stored
RowTimestamp(b, ts) ==
    IF b = "local"
    THEN Timestamp("text", ts \div SecondsPerDay, ts % SecondsPerDay)
    ELSE LET sec == ts \div TicksPerSecond
         IN  Timestamp(IF b = "postgres" THEN "datetime" ELSE "float",
                       sec \div SecondsPerDay, sec % SecondsPerDay)
AsRecords(b, rows) ==
    [i \in 1..Len(rows) |->
        LogRecord(rows[i].key, rows[i].value,
                  RowTimestamp(b, rows[i].timestamp))]

\* what get_analytics returns when no run is found
EmptyAnalytics ==
    [error_rates |-> <<>>, error_distribution |-> <<>>,
     retrieval_scores |-> <<>>, throughput_data |-> <<>>]

\* run_info = await cls.get_run_info(pipeline_type=pipeline_type)
AnalyticsRunInfo(cfg, st, fail, tie) ==
    IF ~AcceptsKeywords(GetRunInfoParams, {"pipeline_type"})
    THEN Ended("TypeError", <<>>, FALSE, "none", 0, 0, st)
    ELSE Scoped(cfg, fail,
                ProviderGetRunInfo(cfg, st, DefaultLimit, None, tie), st)

\* run_ids = [info.run_id for info in run_info]
AnalyticsRunIds(run_info) ==
    [i \in 1..Len(run_info.val) |-> run_info.val[i].run_id]

\* logs = await cls.get_logs(run_ids=run_ids, limit_per_run=100)
AnalyticsLogs(cfg, st, fail, tie, run_ids) ==
    Scoped(cfg, fail,
           ProviderGetLogs(cfg, st, run_ids, AnalyticsLimitPerRun, tie), st)

\* throughput_data = await cls.get_throughput_data()
AnalyticsThroughput(cfg, st, fail) ==
    Scoped(cfg, fail, ProviderGetThroughputData(cfg, st, NoTime, NoTime), st)

\* get_analytics(pipeline_type): how it ends, given how each of its calls
\* ended; a call that raises ends it, and no run found ends it before
\* get_logs
GetAnalytics(run_info, logs, throughput_data, processed_logs) ==
    IF run_info.exc # "none" THEN run_info
    ELSE IF AnalyticsRunIds(run_info) = <<>>
    THEN [run_info EXCEPT !.val = EmptyAnalytics]
    ELSE IF logs.exc # "none"
    THEN [logs EXCEPT !.opened = @ + run_info.opened]
    ELSE IF throughput_data.exc # "none"
    THEN [throughput_data EXCEPT
             !.opened = @ + run_info.opened + logs.opened]
    ELSE IF processed_logs.exc # "none"
    THEN [throughput_data EXCEPT
             !.exc = processed_logs.exc,
             !.opened = @ + run_info.opened + logs.opened]
    ELSE [throughput_data EXCEPT
             !.val = [processed_logs.val EXCEPT
                         !.throughput_data = throughput_data.val],
             !.opened = @ + run_info.opened + logs.opened]

\* KVLoggingSingleton.get_analytics(pipeline_type)
FacadeGetAnalytics ==
    \E fail \in Failures :
    \E pipeline_type \in (IF ReachesCall(config, fail)
                          THEN {None} \cup LogTypes ELSE {None}) :
        /\ ~NothingChanged
        /\ openConns < MaxOpenConns
        /\ \E tie_info \in (IF config \in Relational /\ ReachesCall(config, fail)
                            THEN TieOrders(sqlInfo[config]) ELSE {<<>>}),
              tie_logs \in (IF config \in Relational /\ ReachesCall(config, fail)
                            THEN TieOrders(sqlLogs[config]) ELSE {<<>>}) :
            \E run_info \in {AnalyticsRunInfo(config, Stores, fail, tie_info)} :
            \E logs \in {AnalyticsLogs(config, Stores, fail, tie_logs,
                                      AnalyticsRunIds(run_info))} :
            \E throughput_data \in {AnalyticsThroughput(config, Stores, fail)} :
            \E processed_logs \in {process_logs(AsRecords(config, logs.val))} :
                LET e == GetAnalytics(run_info, logs, throughput_data,
                                      processed_logs)
                IN  /\ Finish(e)
                    /\ fret' = [Propagate("get_analytics", e) EXCEPT
                                   !.arg = <<pipeline_type>>]
        /\ UNCHANGED <<clock, nInfo, lastInfoType, ret, config, isConfigured, providers, taskVars>>

NextFacade ==
    \/ Configure
    \/ FacadeLog
    \/ FacadeGetRunInfo
    \/ FacadeGetLogs
    \/ FacadeLogThroughput
    \/ FacadeGetThroughputData
    \/ FacadeGetAnalytics
SpecFacade == Init /\ [][NextFacade]_vars

(***************************************************************************)
(* What each provider holds, read for the properties below.                *)
(***************************************************************************)
\* the records stored for run r by provider b, oldest write first
StoredOf(b, r) ==
    IF b = "redis"
    THEN LET l == redisLists[Str(r)]
         IN  [k \in 1..Len(l) |->
                 LET e == JsonLoads(l[Len(l) + 1 - k])
                 IN  [timestamp |-> e.timestamp, key |-> e.key,
                      value |-> e.value]]
    ELSE LET id == IF b = "local" THEN Str(r) ELSE r
             rows == SelectSeq(sqlLogs[b], LAMBDA row : row.log_id = id)
         IN  [k \in 1..Len(rows) |->
                 [timestamp |-> rows[k].timestamp, key |-> rows[k].key,
                  value |-> rows[k].value]]

\* the records of run r in a get_logs answer, in the order returned
ReturnedOf(val, r) ==
    LET rows == SelectSeq(val, LAMBDA row : row.log_id = r)
    IN  [k \in 1..Len(rows) |->
            [timestamp |-> rows[k].timestamp, key |-> rows[k].key,
             value |-> rows[k].value]]

Count(s, x) == Cardinality({i \in 1..Len(s) : s[i] = x})
Min(a, b) == IF a < b THEN a ELSE b

\* got holds n of the records of stored, none of them older than a record of
\* stored that it leaves out
MostRecent(got, stored, n) ==
    /\ Len(got) = n
    /\ \A x \in Elems(got) : Count(got, x) <= Count(stored, x)
    /\ \A x \in Elems(stored) :
          Count(got, x) < Count(stored, x)
              => \A y \in Elems(got) : y.timestamp >= x.timestamp

\* C1: get_logs(run_ids, N), N >= 1, returns for each run of run_ids exactly
\* min(N, records stored for the run) records of that run, the most recent
\* ones by timestamp, on every backend.
C1_TopNPerRun ==
    (ret.op = "get_logs" /\ ret.limit >= 1) =>
        \A b \in Backends, r \in Elems(ret.run_ids) :
            /\ ret.out[b].exc = "none"
            /\ MostRecent(ReturnedOf(ret.out[b].val, r), StoredOf(b, r),
                          Min(ret.limit, Len(StoredOf(b, r))))

\* a run holding more records than the limit was read, and cut to the limit
C1_Witness ==
    /\ ret.op = "get_logs"
    /\ ret.limit >= 1
    /\ \E r \in Elems(ret.run_ids) :
          \A b \in Backends :
              /\ Len(StoredOf(b, r)) > ret.limit
              /\ Len(ReturnedOf(ret.out[b].val, r)) = ret.limit

\* C2: after an ordinary log(run_id, key, value), get_logs([run_id], N),
\* N >= 1, includes that record and places it before every record of the run
\* written earlier: the answer starts with the record written last.
C2_LastWrittenFirst ==
    (/\ ret.op = "get_logs"
     /\ ret.limit >= 1
     /\ Len(ret.run_ids) = 1) =>
        \A b \in Backends :
            LET stored == StoredOf(b, ret.run_ids[1])
                val == ret.out[b].val
            IN  stored # <<>> =>
                    /\ ret.out[b].exc = "none"
                    /\ val # <<>>
                    /\ val[1].key = stored[Len(stored)].key
                    /\ val[1].value = stored[Len(stored)].value

\* C6: get_logs([], N) fails with a validation error on every backend.
C6_EmptyRunIdsRejected ==
    (ret.op = "get_logs" /\ ret.run_ids = <<>>) =>
        \A b \in Backends : ret.out[b].exc = "ValueError"

\* the records of a get_logs answer, as the caller can compare them across
\* backends
Observable(val) ==
    [k \in 1..Len(val) |->
        [log_id |-> val[k].log_id, key |-> val[k].key, value |-> val[k].value]]

\* C7: for the same writes and the same get_logs(run_ids, N) over two or more
\* runs, the relational providers and the clustered-KV provider return the
\* same records in the same order.
C7_SameOrderAcrossBackends ==
    (/\ ret.op = "get_logs"
     /\ ret.limit >= 1
     /\ Len(ret.run_ids) >= 2) =>
        \A b \in Relational :
            Observable(ret.out[b].val) = Observable(ret.out["redis"].val)

\* the write time under which provider b holds the info record of run r
InfoTime(b, r) ==
    IF b = "redis"
    THEN redisSorted[Str(r)]
    ELSE LET id == IF b = "local" THEN Str(r) ELSE r
         IN  sqlInfo[b][CHOOSE i \in 1..Len(sqlInfo[b]) :
                           sqlInfo[b][i].log_id = id].timestamp

\* C3: get_run_info(limit, log_type_filter) returns, on every backend and for
\* every limit and filter (no filter included), at most limit entries, in
\* descending order of the write time of their info record, and with a filter
\* only entries of exactly that type.
C3_RunInfoNewestFirst ==
    ret.op = "get_run_info" =>
        \A b \in Backends :
            LET val == ret.out[b].val
            IN  /\ ret.out[b].exc = "none"
                /\ Len(val) <= ret.limit
                /\ \A i, j \in 1..Len(val) :
                      i < j => InfoTime(b, val[i].run_id)
                                   >= InfoTime(b, val[j].run_id)
                /\ ret.filter # None =>
                      \A i \in 1..Len(val) : val[i].log_type = ret.filter

\* C4: after any sequence of info-log writes, get_run_info yields at most one
\* entry per run, and the entry carries the value of the latest info write
\* of that run.
C4_InfoWriteIsUpsert ==
    ret.op = "get_run_info" =>
        \A b \in Backends :
            LET val == ret.out[b].val
            IN  ret.out[b].exc = "none" =>
                    /\ \A i, j \in 1..Len(val) :
                          i # j => val[i].run_id # val[j].run_id
                    /\ \A i \in 1..Len(val) :
                          val[i].log_type = lastInfoType[val[i].run_id]

\* C5: an info-log write whose key lacks "type" fails with a validation error
\* on every backend and leaves the event log, the run-info table, the hash
\* and the sorted set as they were.
C5_InvalidInfoKeyRejected ==
    [][(/\ ret'.op = "log"
        /\ ret'.is_info_log
        /\ ~Contains(ret'.key, "type")) =>
            /\ \A b \in Backends : ret'.out[b].exc = "ValueError"
            /\ UNCHANGED storeVars]_vars

\* an info-log write without the marker was refused while info records were
\* already held
C5_Witness ==
    /\ ret.op = "log"
    /\ ret.is_info_log
    /\ ~Contains(ret.key, "type")
    /\ \A b \in Backends : ret.out[b].exc = "ValueError"
    /\ DOMAIN redisHash # {}
    /\ sqlInfo["local"] # <<>>

FacadeWrites == {"log", "log_throughput"}
FacadeReads == {"get_run_info", "get_logs", "get_throughput_data"}

\* C8: the facade's log() and log_throughput() always return normally to the
\* caller: whatever is raised while the provider is obtained, opened, written
\* to or closed is swallowed, never surfaced.
C8_WritesAlwaysReturn ==
    fret.op \in FacadeWrites => fret.outcome = "returned"

\* a facade write returned although something under it raised
C8_Witness ==
    /\ fret.op \in FacadeWrites
    /\ fret.called
    /\ fret.exc # "none"
    /\ fret.outcome = "returned"

\* C9: the facade's reads propagate a provider failure unchanged: whenever the
\* delegated provider call fails, the facade call fails with that same failure
\* and returns no result.
C9_ReadsPropagateUnchanged ==
    (fret.op \in FacadeReads /\ fret.call_exc # "none")
        => (fret.outcome = "raised" /\ fret.exc = fret.call_exc)

\* C10: on every exit path of every facade operation, a failure of init()
\* after connecting and a failure of the provider call included, no
\* connection the operation opened is still open when it hands control back.
C10_NoConnectionLeftOpen ==
    fret.op \in FacadeWrites \cup FacadeReads => fret.still_open = 0

\* C11: the registry is configured at most once: the first configure()
\* succeeds and stores what it is given, every later one fails with the
\* already-configured error, and the stored configuration never changes
\* afterwards, whatever is called.
C11_ConfiguredAtMostOnce ==
    [][/\ (fret'.op = "configure" /\ fret' # fret /\ ~isConfigured) =>
            (fret'.outcome = "returned" /\ isConfigured'
             /\ fret'.arg = <<config'>>)
       /\ isConfigured =>
            /\ isConfigured' /\ config' = config
            /\ (fret'.op = "configure" /\ fret' # fret) =>
                   (fret'.outcome = "raised" /\ fret'.exc = "Exception")]_vars

\* a later configure() with another configuration was refused
C11_Witness ==
    /\ fret.op = "configure"
    /\ fret.outcome = "raised"
    /\ isConfigured
    /\ fret.arg # <<config>>

\* what the store client raises, as opposed to the provider's own code
StoreFailures == {"ConnectionError", "StorageError", "CloseError"}

\* the sample (t, n, r) as get_throughput_data hands it back
Sample(t, n, r) == [timestamp |-> t, num_requests |-> n, request_type |-> r]

\* C12: throughput round trip: with a provider configured and the store
\* working, log_throughput(t, n, r) on an empty series followed by
\* get_throughput_data(t-1, t+1) returns exactly the one sample (t, n, r).
C12_ThroughputRoundTrip ==
    [][(/\ isConfigured
        /\ fret.op = "log_throughput"
        /\ fret.called /\ fret.exc \notin StoreFailures
        /\ fret'.op = "get_throughput_data"
        /\ fret'.called /\ fret'.exc \notin StoreFailures
        /\ fret'.arg = << <<fret.arg[1] - TicksPerSecond>>,
                          <<fret.arg[1] + TicksPerSecond>> >>)
       => /\ fret'.outcome = "returned"
          /\ fret'.val = <<Sample(UnixEpoch(fret.arg[1]), fret.arg[2],
                                  fret.arg[3])>>]_vars

Coded(logs) ==
    {i \in 1..Len(logs) : logs[i].key = "error" /\ FindAll(logs[i].value) # <<>>}
LastCode(value) == FindAll(value)[Len(FindAll(value))]
CodesOf(logs) == {LastCode(logs[i].value) : i \in Coded(logs)}
DaysOf(logs) == {logs[i].timestamp.date : i \in Coded(logs)}
\* the dataset of a code, and the position of a day among the labels
DatasetOf(agg, c) ==
    agg.error_rates.datasets[
        CHOOSE i \in 1..Len(agg.error_rates.datasets) :
            agg.error_rates.datasets[i].label = "Error Code " \o c]
LabelIndex(agg, d) ==
    CHOOSE i \in 1..Len(agg.error_rates.labels) :
        DateOfLabel(agg.error_rates.labels[i]) = d

C15_HistogramDayOrdered ==
    (ret.op = "process_logs" /\ ret.out.exc = "none") =>
        LET agg == ret.out.val
            labels == agg.error_rates.labels
        IN  /\ \A i, j \in 1..Len(labels) :
                  i < j => DateOfLabel(labels[i]) < DateOfLabel(labels[j])
            /\ \A k \in 1..Len(agg.error_rates.datasets) :
                  Len(agg.error_rates.datasets[k].data) = Len(labels)

\* the scores of the well-formed entries of an array, in order
WellFormedScores(items) ==
    LET good == SelectSeq(items, LAMBDA e : e.wellformed /\ HasField(e, "score"))
    IN  [i \in 1..Len(good) |-> Field(good[i], "score")]
RECURSIVE ScoresUpTo(_, _)
ScoresUpTo(logs, n) ==
    IF n = 0 THEN <<>>
    ELSE ScoresUpTo(logs, n - 1) \o
         (IF logs[n].key = "search_results" /\ logs[n].value.wellformed
          THEN WellFormedScores(logs[n].value.items)
          ELSE <<>>)

\* C16: for a search_results record whose array mixes well-formed entries
\* with a malformed one at any position, process_logs appends the score of
\* every well-formed entry, before and after the malformed one, skips only
\* the malformed entry and goes on with the remaining records.
C16_MalformedEntrySkipped ==
    (ret.op = "process_logs" /\ ret.out.exc = "none") =>
        ret.out.val.retrieval_scores = ScoresUpTo(ret.logs, Len(ret.logs))

\* C17: get_analytics fetches the run metadata, the logs of those runs, the
\* throughput series, and runs process_logs: with the store working it
\* returns an aggregate, the empty one when no run matches.
C17_AnalyticsPipeline ==
    (/\ fret.op = "get_analytics"
     /\ isConfigured
     /\ fret.exc \notin StoreFailures)
    => /\ fret.outcome = "returned"
       /\ (config \in Relational /\ sqlInfo[config] = <<>>)
             => fret.val = EmptyAnalytics

(***************************************************************************)
(* C18..C19: init() and close() called more than once.                     *)
(***************************************************************************)
\* this step is a call of op on the provider object b
CallOn(b, op) ==
    /\ providers'[b].calls = providers[b].calls + 1
    /\ ret'.op = op
    /\ ret'.backend = b

\* C18: close() is safe to call multiple times on every provider variant:
\* the first call after the connection was made releases it, and every later
\* call (a close() that follows a close() on the same object) raises no
\* error and sends nothing to a connection or to the client.
C18_CloseIsNoOpAfterFirst ==
    [][\A b \in Backends :
          CallOn(b, "close") =>
              /\ ret'.exc = "none"
              /\ providers[b].conn = "open" =>
                    /\ providers'[b].conn = "None"
                    /\ providers'[b].closes = providers[b].closes + 1
              /\ providers[b].last = "close" =>
                    providers'[b].closes = providers[b].closes]_vars

C20_AtMostLimitPerRun ==
    ret.op = "get_logs" =>
        \A b \in Backends, r \in Elems(ret.run_ids) :
            ret.out[b].exc = "none" =>
                Len(ReturnedOf(ret.out[b].val, r)) <= ret.limit

(***************************************************************************)
(* C24: the connections of a relational provider object after close().     *)
(***************************************************************************)
\* C24: once close() has been called on a relational provider object, none
\* of the connections that object opened is still open, whatever init(),
\* __aenter__ and log calls came before, init() called twice included.
C24_CloseLeavesNoConnection ==
    \A b \in Relational :
        providers[b].last = "close" => providers[b].live = 0

(***************************************************************************)
(* C21..C23: concurrent callers of the Redis provider.                     *)
(***************************************************************************)
\* C21: on Redis, in every reachable state, the state between the two
\* commands of an info-log write included and whatever the interleaving of
\* writers and the reader, every member of the sorted set has an entry in
\* the run-info hash, and get_run_info never reads a missing entry.
C21_SortedMembersHaveEntries ==
    /\ DOMAIN redisSorted \subseteq DOMAIN redisHash
    /\ reader.pc # "raised"

\* a write of a run the store holds is between its two commands while
\* get_run_info is in the middle of a batch
C21_Witness ==
    /\ reader.pc = "hget"
    /\ reader.n > 1
    /\ \E w \in 1..Len(writers) :
          /\ writers[w].sent = 1
          /\ Str(writers[w].log_id) \in DOMAIN redisSorted
          /\ JsonLoads(redisHash[Str(writers[w].log_id)]).timestamp
                = writers[w].timestamp

\* C22: on Redis, once every one of several concurrent info-log writes of
\* one run_id has sent both its commands, the timestamp in the run's hash
\* entry equals the score the run is ordered under.
C22_EntryAndScoreFromSameWrite ==
    \A w \in 1..Len(writers) :
        LET same == {v \in 1..Len(writers) :
                        writers[v].log_id = writers[w].log_id}
        IN  (Cardinality(same) > 1 /\ \A v \in same : writers[v].sent = 2)
                => JsonLoads(redisHash[Str(writers[w].log_id)]).timestamp
                      = redisSorted[Str(writers[w].log_id)]

\* C23: on Redis, get_run_info never returns a run_id twice, also when the
\* result spans more than one batch of the sorted set and info-log writes
\* of other callers come between its range reads.
C23_NoRunReturnedTwice ==
    reader.pc = "returned" =>
        \A i, j \in 1..Len(ReaderResult(reader)) :
            i # j => ReaderResult(reader)[i].run_id
                        # ReaderResult(reader)[j].run_id

====
